---- MODULE Spec2Model ----
(***************************************************************************)
(* The Map component of src/components/Map.tsx: one effect that creates a  *)
(* mapbox-gl map once, the callbacks it registers on it (load, error,      *)
(* click, mouseenter, mouseleave) and the cleanup that removes the map.    *)
(*                                                                         *)
(* The mapping widget is outside the component.  It is modelled by what    *)
(* the component asks of it: a record per constructed instance holding the *)
(* listeners, sources, layers, controls and popups registered on it, the   *)
(* cursor of its canvas and the number of remove() calls.  The widget      *)
(* chooses when a registered callback is delivered and whether one of its  *)
(* calls throws.  A callback may be delivered after remove(): the guards   *)
(* on map.current in the callbacks exist for that case.  The load event    *)
(* is emitted at most once per instance, and addSource throws for an id    *)
(* the instance already holds.                                             *)
(***************************************************************************)
EXTENDS Integers, Sequences, FiniteSets, TLC

VARIABLES
    accessToken,   \* mapboxgl.accessToken, fixed at module load (line 8)
    basketballCourts, \* the imported collection object (lines 4, 21)
    mounted,       \* the component is in the tree (React)
    mapContainer,  \* mapContainer.current: "div" or "null"
    map,           \* map.current: Null or the index of an instance in widgets
    mapError,      \* the mapError state: NoError or a message
    cleanupFn,     \* an effect run returned the cleanup closure (line 139)
    widgets,       \* the instances new mapboxgl.Map(...) returned, in order
    thrown,        \* the exception that escaped the last callback, or "none"
    initFailure,   \* the catch branch taken by the last creation attempt
    ev             \* the last event delivered to the component

vars == <<accessToken, basketballCourts, mounted, mapContainer, map, mapError, cleanupFn,
          widgets, thrown, initFailure, ev>>

(* ------------------------------ bounds --------------------------------- *)

MaxInstances == 2
MaxPopups == 2

(* ----------------------------- constants ------------------------------- *)

Null == 0
NoError == "null"

TokenMissingMessage ==
    "Mapbox access token is missing. Please check your environment variables."
InitFailedMessage == "Failed to initialize map"
RuntimeErrorMessage == "Error loading map"

SourceId == "basketball-courts"
CircleLayerId == "basketball-courts-layer"
LabelLayerId == "court-labels"

\* The bundled collection: two courts; coordinates in 1e-4 degrees.
typedBasketballCourts ==
    << [geometry   |-> [type |-> "Point", coordinates |-> <<1397014, 356648>>],
        properties |-> [id |-> "c1", name |-> "Court A",
                        description |-> "Nice court", courtType |-> "outdoor",
                        hoops |-> 2, surface |-> "asphalt"]],
       [geometry   |-> [type |-> "Point", coordinates |-> <<1396980, 356700>>],
        properties |-> [id |-> "c2", name |-> "Court B",
                        description |-> "", courtType |-> "indoor",
                        hoops |-> 1, surface |-> "wood"]] >>

MapOptions ==
    [container |-> "div", style |-> "mapbox://styles/mapbox/streets-v12",
     center |-> <<1397014, 356648>>, zoom |-> 13]

\* Line 53 hands the collection object itself to the widget.
CourtsSource == [id |-> SourceId, type |-> "geojson", data |-> basketballCourts]

CircleLayer ==
    [id |-> CircleLayerId, type |-> "circle", source |-> SourceId,
     paint |-> [circleRadius |-> 8, circleColor |-> "#FF5733",
                circleStrokeWidth |-> 2, circleStrokeColor |-> "#ffffff"]]

LabelLayer ==
    [id |-> LabelLayerId, type |-> "symbol", source |-> SourceId,
     paint |-> [textField |-> "name", textFont |-> "Open Sans Regular",
                textOffset |-> <<0, 15>>, textAnchor |-> "top",
                textColor |-> "#333", textHaloColor |-> "#fff",
                textHaloWidth |-> 1]]

(* ------------------------------ the widget ----------------------------- *)

NewWidget(options) ==
    [options |-> options, listeners |-> <<>>, controls |-> <<>>,
     sources |-> <<>>, layers |-> <<>>, popups |-> <<>>, cursor |-> "",
     loadFired |-> FALSE, removeCalls |-> 0]

On(w, type, layer) ==
    [w EXCEPT !.listeners = Append(@, [type |-> type, layer |-> layer])]

AddControl(w, control, position) ==
    [w EXCEPT !.controls = Append(@, [control |-> control, position |-> position])]

AddSource(w, source) == [w EXCEPT !.sources = Append(@, source)]

AddLayer(w, layer) == [w EXCEPT !.layers = Append(@, layer)]

AddPopup(w, popup) == [w EXCEPT !.popups = Append(@, popup)]

SetCursor(w, c) == [w EXCEPT !.cursor = c]

\* remove() releases what the instance holds (controls, style, popups, canvas);
\* the callbacks registered with on() stay with the object.
Remove(w) ==
    [w EXCEPT !.removeCalls = @ + 1, !.controls = <<>>, !.sources = <<>>,
              !.layers = <<>>, !.popups = <<>>, !.cursor = ""]

Count(seq, id) == Cardinality({k \in DOMAIN seq : seq[k].id = id})

HasSource(w, id) == Count(w.sources, id) > 0

HasLayer(w, id) == Count(w.layers, id) > 0

Listens(w, type, layer) ==
    \E k \in DOMAIN w.listeners :
        w.listeners[k] = [type |-> type, layer |-> layer]

ListenerCount(w, type) ==
    Cardinality({k \in DOMAIN w.listeners : w.listeners[k].type = type})

Instances == DOMAIN widgets

Live(i) == widgets[i].removeCalls = 0

(* --------------------------- React state ------------------------------- *)

\* setMapError: React drops a state update of a component that is unmounted.
setMapError(msg) == IF mounted THEN msg ELSE mapError

\* The record of the last event: its type, the instance that emitted it (0 for
\* the effect and the cleanup), how the callback ended, and a click's features.
Event(type, inst, outcome) ==
    [type |-> type, inst |-> inst, outcome |-> outcome,
     hasFeatures |-> FALSE, features |-> <<>>]

NoEvent == Event("none", 0, "none")

Init ==
    /\ accessToken \in {"", "pk.token"}
    /\ basketballCourts = typedBasketballCourts
    /\ mounted = TRUE
    /\ mapContainer = "div"
    /\ map = Null
    /\ mapError = NoError
    /\ cleanupFn = FALSE
    /\ widgets = <<>>
    /\ thrown = "none"
    /\ initFailure = "none"
    /\ ev = NoEvent

(* --------------------------- the effect -------------------------------- *)

\* The effect registering the source right after construction, without waiting
\* for the load event.
CreatedWidgetEagerSource(withControl) ==
    LET w0 == NewWidget(MapOptions)
        w1 == On(w0, "load", "")
        w2 == On(w1, "error", "")
        w3 == AddSource(w2, CourtsSource)
    IN IF withControl THEN AddControl(w3, "NavigationControl", "top-right") ELSE w3

\* Lines 39-131 with the widget's calls all succeeding, or addControl throwing
\* after the handle is set and both listeners are registered.
CreatedWidget(withControl) ==
    LET w0 == NewWidget(MapOptions)
        w1 == On(w0, "load", "")
        w2 == On(w1, "error", "")
    IN IF withControl THEN AddControl(w2, "NavigationControl", "top-right") ELSE w2

MountOutcomes == {"ok", "constructorThrows", "addControlThrows"}

\* The effect without its "initialize map only once" guard.
NeverInitialized == FALSE

\* Line 29: "initialize map only once".
AlreadyInitialized == map # Null

\* The effect without its token check.
TokenAssumed == TRUE

\* Line 33.
TokenAvailable == accessToken # ""

MountEffect ==
    /\ mounted
    /\ thrown' = "none"
    /\ UNCHANGED <<accessToken, basketballCourts, mounted, mapContainer>>
    /\ IF AlreadyInitialized \/ mapContainer = "null"
       THEN /\ ev' = Event("effect", 0, "skipped")
            /\ UNCHANGED <<map, mapError, cleanupFn, widgets, initFailure>>
       ELSE IF ~TokenAvailable
       THEN /\ ev' = Event("effect", 0, "noToken")
            /\ mapError' = setMapError(TokenMissingMessage)
            /\ UNCHANGED <<map, cleanupFn, widgets, initFailure>>
       ELSE /\ Len(widgets) < MaxInstances
            /\ \E outcome \in MountOutcomes :
                 /\ ev' = Event("effect", 0, outcome)
                 /\ cleanupFn' = TRUE
                 /\ IF outcome = "constructorThrows"
                    THEN /\ UNCHANGED <<map, widgets>>
                         /\ mapError' = setMapError(InitFailedMessage)
                         /\ initFailure' = "constructor"
                    ELSE /\ widgets' = Append(widgets, CreatedWidget(outcome = "ok"))
                         /\ map' = Len(widgets) + 1
                         /\ IF outcome = "ok"
                            THEN /\ UNCHANGED mapError
                                 /\ initFailure' = "none"
                            ELSE /\ mapError' = setMapError(InitFailedMessage)
                                 /\ initFailure' = "addControl"

\* The cleanup without line 142: the handle is left on the removed instance.
CleanupKeepsHandle ==
    IF map # Null
    THEN /\ widgets' = [widgets EXCEPT ![map] = Remove(@)]
         /\ map' = map
    ELSE UNCHANGED <<widgets, map>>

\* The cleanup without line 141: the handle is dropped, the instance not removed.
CleanupForgetsRemove ==
    /\ widgets' = widgets
    /\ map' = Null

\* Lines 139-144: the cleanup closure.
CleanupBody ==
    IF map # Null
    THEN /\ widgets' = [widgets EXCEPT ![map] = Remove(@)]
         /\ map' = Null
    ELSE UNCHANGED <<widgets, map>>

\* The cleanup closure run on its own (a simulated unmount, a second unmount).
Cleanup ==
    /\ cleanupFn
    /\ CleanupBody
    /\ thrown' = "none"
    /\ initFailure' = "none"
    /\ ev' = Event("cleanup", 0, "none")
    /\ UNCHANGED <<accessToken, basketballCourts, mounted, mapContainer, mapError, cleanupFn>>

\* React unmounts the component: the ref is detached and the effect's cleanup,
\* when the effect returned one, is run.
Unmount ==
    /\ mounted
    /\ mounted' = FALSE
    /\ mapContainer' = "null"
    /\ IF cleanupFn THEN CleanupBody ELSE UNCHANGED <<widgets, map>>
    /\ thrown' = "none"
    /\ initFailure' = "none"
    /\ ev' = Event("unmount", 0, "none")
    /\ UNCHANGED <<accessToken, basketballCourts, mapError, cleanupFn>>

(* ----------------------- the widget's callbacks ------------------------ *)

\* The load callback without its second addLayer.
LoadStepsNoLabels ==
    <<"addSource", "addCircleLayer", "onClick", "onMouseEnter", "onMouseLeave">>

\* The load callback attaching the interaction handlers before the overlay.
LoadStepsHandlersFirst ==
    <<"onClick", "onMouseEnter", "onMouseLeave",
      "addSource", "addCircleLayer", "addLabelLayer">>

\* Lines 51-121, the calls of the load callback in program order.
LoadSteps ==
    <<"addSource", "addCircleLayer", "addLabelLayer",
      "onClick", "onMouseEnter", "onMouseLeave">>

ApplyStep(w, step) ==
    CASE step = "addSource"      -> AddSource(w, CourtsSource)
      [] step = "addCircleLayer" -> AddLayer(w, CircleLayer)
      [] step = "addLabelLayer"  -> AddLayer(w, LabelLayer)
      [] step = "onClick"        -> On(w, "click", CircleLayerId)
      [] step = "onMouseEnter"   -> On(w, "mouseenter", CircleLayerId)
      [] step = "onMouseLeave"   -> On(w, "mouseleave", CircleLayerId)

\* The registrations the widget may reject by throwing.
LoadFaults == {"none", "addSource", "addCircleLayer", "addLabelLayer"}

\* A call throws when the widget fails it, and addSource throws when the
\* instance already holds a source of that id.
Throws(w, step, fault) ==
    \/ step = fault
    \/ step = "addSource" /\ HasSource(w, SourceId)

\* The calls run in order until the widget throws in one: w is the instance
\* after the calls that returned, failed the call that threw ("none" if none).
RECURSIVE RunSteps(_, _, _)
RunSteps(w, steps, fault) ==
    IF steps = <<>> THEN [w |-> w, failed |-> "none"]
    ELSE IF Throws(w, Head(steps), fault) THEN [w |-> w, failed |-> Head(steps)]
    ELSE RunSteps(ApplyStep(w, Head(steps)), Tail(steps), fault)

\* The load callback with its body inside a try/catch like the effect's.
LoadHandlerCaught(ws, fault) ==
    IF map # Null
    THEN LET r == RunSteps(ws[map], LoadSteps, fault)
         IN [widgets |-> [ws EXCEPT ![map] = r.w], failed |-> r.failed,
             thrown |-> "none",
             mapError |-> IF r.failed = "none" THEN mapError
                          ELSE setMapError(InitFailedMessage),
             courts |-> basketballCourts]
    ELSE [widgets |-> ws, failed |-> "none", thrown |-> "none",
          mapError |-> mapError, courts |-> basketballCourts]

\* The load callback reversing the collection's array in place before it
\* registers it.
LoadHandlerReversesCourts(ws, fault) ==
    IF map # Null
    THEN LET r == RunSteps(ws[map], LoadSteps, fault)
         IN [widgets |-> [ws EXCEPT ![map] = r.w], failed |-> r.failed,
             thrown |-> r.failed, mapError |-> mapError,
             courts |-> [k \in DOMAIN basketballCourts |->
                           basketballCourts[Len(basketballCourts) + 1 - k]]]
    ELSE [widgets |-> ws, failed |-> "none", thrown |-> "none",
          mapError |-> mapError, courts |-> basketballCourts]

\* The load callback clearing the banner when the overlay is in place.
LoadHandlerClearsError(ws, fault) ==
    IF map # Null
    THEN LET r == RunSteps(ws[map], LoadSteps, fault)
         IN [widgets |-> [ws EXCEPT ![map] = r.w], failed |-> r.failed,
             thrown |-> r.failed,
             mapError |-> IF r.failed = "none" THEN NoError ELSE mapError,
             courts |-> basketballCourts]
    ELSE [widgets |-> ws, failed |-> "none", thrown |-> "none",
          mapError |-> mapError, courts |-> basketballCourts]

\* Lines 46-123: the load callback, on whatever map.current is when it runs.
\* Nothing in it catches: an exception of a widget call leaves the callback,
\* and mapError is not touched.  The collection is read (line 53), not written.
LoadHandler(ws, fault) ==
    IF map # Null
    THEN LET r == RunSteps(ws[map], LoadSteps, fault)
         IN [widgets |-> [ws EXCEPT ![map] = r.w], failed |-> r.failed,
             thrown |-> r.failed, mapError |-> mapError,
             courts |-> basketballCourts]
    ELSE [widgets |-> ws, failed |-> "none", thrown |-> "none",
          mapError |-> mapError, courts |-> basketballCourts]

\* The widget emits load on instance i; fault is the call it fails, if any.
Load(i) ==
    /\ Listens(widgets[i], "load", "")
    /\ ~widgets[i].loadFired
    /\ \E fault \in LoadFaults :
         LET r == LoadHandler([widgets EXCEPT ![i].loadFired = TRUE], fault)
         IN /\ fault # "none" => r.failed = fault
            /\ widgets' = r.widgets
            /\ thrown' = r.thrown
            /\ mapError' = r.mapError
            /\ basketballCourts' = r.courts
            /\ ev' = Event("load", i, r.failed)
    /\ UNCHANGED <<accessToken, mounted, mapContainer, map, cleanupFn,
                   initFailure>>

\* The error callback keeping a message that is already displayed.
ErrorHandlerKeepsFirst ==
    IF mapError = NoError THEN setMapError(RuntimeErrorMessage) ELSE mapError

\* Lines 125-128: the error callback.
ErrorHandler == setMapError(RuntimeErrorMessage)

Error(i) ==
    /\ Listens(widgets[i], "error", "")
    /\ mapError' = ErrorHandler
    /\ thrown' = "none"
    /\ ev' = Event("error", i, "none")
    /\ UNCHANGED <<accessToken, basketballCourts, mounted, mapContainer, map, cleanupFn,
                   widgets, initFailure>>

\* Lines 98-106: the popup body, as the pieces the template concatenates.
popupContent(props) ==
    <<"<h3>", props.name, "</h3>",
      "<p>", props.description, "</p>",
      "<ul>",
      "<li><strong>Type:</strong> ", props.courtType, "</li>",
      "<li><strong>Hoops:</strong> ", ToString(props.hoops), "</li>",
      "<li><strong>Surface:</strong> ", props.surface, "</li>",
      "</ul>">>

\* What a click event may carry: no feature list, an empty one, or the courts hit.
ClickEvents ==
    {[hasFeatures |-> FALSE, features |-> <<>>],
     [hasFeatures |-> TRUE, features |-> <<>>]}
    \cup {[hasFeatures |-> TRUE, features |-> <<typedBasketballCourts[k]>>] :
             k \in DOMAIN typedBasketballCourts}
    \cup {[hasFeatures |-> TRUE,
           features |-> <<typedBasketballCourts[2], typedBasketballCourts[1]>>]}

\* Line 89.
ClickIgnored(e) == ~e.hasFeatures \/ Len(e.features) = 0 \/ map = Null

\* The click callback reading the last feature of the list, not the first.
ClickPopupLastFeature(e) ==
    LET feature == e.features[Len(e.features)]
        props == feature.properties
        coordinates == SubSeq(feature.geometry.coordinates, 1, 2)
    IN [lngLat |-> coordinates, html |-> popupContent(props)]

\* Lines 91-111.
ClickPopup(e) ==
    LET feature == e.features[1]
        props == feature.properties
        coordinates == SubSeq(feature.geometry.coordinates, 1, 2)
    IN [lngLat |-> coordinates, html |-> popupContent(props)]

\* The click callback without the !e.features test of line 89: reading the
\* length of a missing list throws.
ClickHandlerNoFeaturesTest(e) ==
    IF ~e.hasFeatures
    THEN [widgets |-> widgets, thrown |-> "TypeError"]
    ELSE IF Len(e.features) = 0 \/ map = Null
    THEN [widgets |-> widgets, thrown |-> "none"]
    ELSE [widgets |-> [widgets EXCEPT ![map] = AddPopup(@, ClickPopup(e))],
          thrown |-> "none"]

\* Lines 88-112: the click callback.
ClickHandler(e) ==
    IF ClickIgnored(e)
    THEN [widgets |-> widgets, thrown |-> "none"]
    ELSE [widgets |-> [widgets EXCEPT ![map] = AddPopup(@, ClickPopup(e))],
          thrown |-> "none"]

Click(i, e) ==
    /\ Listens(widgets[i], "click", CircleLayerId)
    /\ IF ClickIgnored(e) THEN TRUE ELSE Len(widgets[map].popups) < MaxPopups
    /\ widgets' = ClickHandler(e).widgets
    /\ thrown' = ClickHandler(e).thrown
    /\ ev' = [Event("click", i, "none") EXCEPT
                 !.hasFeatures = e.hasFeatures, !.features = e.features]
    /\ UNCHANGED <<accessToken, basketballCourts, mounted, mapContainer, map, mapError,
                   cleanupFn, initFailure>>

\* Both hover callbacks setting the pointer cursor.
HoverHandlerAlwaysPointer(c) ==
    IF map # Null THEN [widgets EXCEPT ![map] = SetCursor(@, "pointer")] ELSE widgets

\* Lines 115-117 and 119-121.
HoverHandler(c) ==
    IF map # Null THEN [widgets EXCEPT ![map] = SetCursor(@, c)] ELSE widgets

MouseEnter(i) ==
    /\ Listens(widgets[i], "mouseenter", CircleLayerId)
    /\ widgets' = HoverHandler("pointer")
    /\ thrown' = "none"
    /\ ev' = Event("mouseenter", i, "none")
    /\ UNCHANGED <<accessToken, basketballCourts, mounted, mapContainer, map, mapError,
                   cleanupFn, initFailure>>

MouseLeave(i) ==
    /\ Listens(widgets[i], "mouseleave", CircleLayerId)
    /\ widgets' = HoverHandler("")
    /\ thrown' = "none"
    /\ ev' = Event("mouseleave", i, "none")
    /\ UNCHANGED <<accessToken, basketballCourts, mounted, mapContainer, map, mapError,
                   cleanupFn, initFailure>>

Next ==
    \/ MountEffect
    \/ Cleanup
    \/ Unmount
    \/ \E i \in Instances : Load(i)
    \/ \E i \in Instances : Error(i)
    \/ \E i \in Instances : \E e \in ClickEvents : Click(i, e)
    \/ \E i \in Instances : MouseEnter(i)
    \/ \E i \in Instances : MouseLeave(i)

Spec == Init /\ [][Next]_vars

(* ------------------------------ properties ----------------------------- *)

LiveInstances == {i \in Instances : Live(i)}

EffectRan == ev.type = "effect"

CleanupRan == ev.type \in {"cleanup", "unmount"}

\* C1: with no access token, an effect run leaves mapError equal to the
\* token-missing message, and it stays so; no instance is ever constructed, so
\* the handle stays null and no load or error callback is registered anywhere.
C1_MissingToken ==
    /\ [](accessToken = "" =>
            /\ widgets = <<>>
            /\ map = Null
            /\ mapError \in {NoError, TokenMissingMessage}
            /\ EffectRan => mapError = TokenMissingMessage)
    /\ [][accessToken = "" /\ mapError = TokenMissingMessage
            => mapError' = TokenMissingMessage]_vars

C1_Witness ==
    /\ accessToken = ""
    /\ EffectRan
    /\ mapError = TokenMissingMessage
    /\ widgets = <<>>

\* C2: at most one instance is live at any time, and it is the one the handle
\* names; an effect run constructs exactly one instance when the handle is null,
\* the token is present and the constructor returns, and none otherwise (in
\* particular none when the handle is not null).
C2_SingleInstance ==
    /\ [](/\ Cardinality(LiveInstances) <= 1
          /\ LiveInstances = IF map = Null THEN {} ELSE {map})
    /\ [][EffectRan' =>
            Len(widgets') = Len(widgets) +
               (IF /\ map = Null
                   /\ accessToken # ""
                   /\ ev'.outcome \in {"ok", "addControlThrows"}
                THEN 1 ELSE 0)]_vars

C2_Witness ==
    /\ EffectRan
    /\ ev.outcome = "skipped"
    /\ Len(widgets) = 2
    /\ map = 2
    /\ LiveInstances = {2}

\* C3: the cleanup calls remove() on the instance the handle names and sets the
\* handle to null; run with a null handle it calls nothing; it never throws.  So
\* no instance has remove() called on it twice.
C3_ReleaseOnce ==
    /\ [](\A i \in Instances : widgets[i].removeCalls <= 1)
    /\ [][CleanupRan' =>
            /\ map' = Null
            /\ thrown' = "none"
            /\ IF map # Null
               THEN /\ widgets'[map].removeCalls = widgets[map].removeCalls + 1
                    /\ \A i \in Instances \ {map} : widgets'[i] = widgets[i]
               ELSE widgets' = widgets]_vars

\* The component was unmounted after a creation, and the cleanup ran once more.
C3_Witness ==
    /\ ev.type = "cleanup"
    /\ ~mounted
    /\ map = Null
    /\ Len(widgets) = 1
    /\ widgets[1].removeCalls = 1

Range(seq) == {seq[k] : k \in DOMAIN seq}

Decimal(n) == <<"0", "1", "2", "3", "4", "5", "6", "7", "8", "9">>[n + 1]

WidgetEventTypes == {"load", "error", "click", "mouseenter", "mouseleave"}

OverlayListenerTypes == {"click", "mouseenter", "mouseleave"}

OverlayListeners(w) ==
    {k \in DOMAIN w.listeners : w.listeners[k].type \in OverlayListenerTypes}

\* The source, the two layers and the three handlers are all in place on w,
\* each once, the circle layer painted as line 61-66 says.
OverlayComplete(w) ==
    /\ Count(w.sources, SourceId) = 1
    /\ Count(w.layers, CircleLayerId) = 1
    /\ Count(w.layers, LabelLayerId) = 1
    /\ \A t \in OverlayListenerTypes : ListenerCount(w, t) = 1

\* C4: no instance ever holds the source, the circle layer or the label layer
\* more than once, every circle layer registered has fill colour #FF5733 and
\* stroke width 2, and when a ready callback has run to its end on a live handle
\* that instance holds each of the three exactly once.
C4_OverlayOnce ==
    /\ \A i \in Instances :
         /\ Count(widgets[i].sources, SourceId) <= 1
         /\ Count(widgets[i].layers, CircleLayerId) <= 1
         /\ Count(widgets[i].layers, LabelLayerId) <= 1
         /\ Len(widgets[i].sources) = Count(widgets[i].sources, SourceId)
         /\ \A k \in DOMAIN widgets[i].layers :
              /\ widgets[i].layers[k].id \in {CircleLayerId, LabelLayerId}
              /\ widgets[i].layers[k].source = SourceId
              /\ widgets[i].layers[k].id = CircleLayerId =>
                    /\ widgets[i].layers[k].type = "circle"
                    /\ widgets[i].layers[k].paint.circleColor = "#FF5733"
                    /\ widgets[i].layers[k].paint.circleStrokeWidth = 2
    /\ (ev.type = "load" /\ ev.outcome = "none" /\ map # Null) =>
         /\ Count(widgets[map].sources, SourceId) = 1
         /\ Count(widgets[map].layers, CircleLayerId) = 1
         /\ Count(widgets[map].layers, LabelLayerId) = 1

C4_Witness ==
    /\ ev.type = "load"
    /\ ev.outcome = "none"
    /\ map # Null
    /\ ev.inst = map
    /\ OverlayComplete(widgets[map])

\* C5: a click carrying at least one feature, delivered while the handle is not
\* null, adds exactly one popup to the instance the handle names and changes
\* nothing else; the popup is anchored at the first feature's coordinates and
\* its body contains that feature's name, description, courtType, hoops (in
\* decimal) and surface.
C5_ClickOpensPopup ==
    [][(ev'.type = "click" /\ ev'.hasFeatures /\ Len(ev'.features) > 0
          /\ map # Null) =>
        LET f == ev'.features[1]
            before == widgets[map].popups
            after == widgets'[map].popups
        IN /\ map' = map
           /\ Len(after) = Len(before) + 1
           /\ SubSeq(after, 1, Len(before)) = before
           /\ after[Len(after)].lngLat = f.geometry.coordinates
           /\ {f.properties.name, f.properties.description,
               f.properties.courtType, Decimal(f.properties.hoops),
               f.properties.surface} \subseteq Range(after[Len(after)].html)
           /\ widgets' = [widgets EXCEPT ![map].popups = after]
           /\ mapError' = mapError
           /\ thrown' = "none"]_vars

C5_Witness ==
    /\ ev.type = "click"
    /\ Len(ev.features) = 2
    /\ map # Null
    /\ Len(widgets[map].popups) = 2
    /\ widgets[map].popups[2].lngLat = ev.features[1].geometry.coordinates
    /\ "Court B" \in Range(widgets[map].popups[2].html)

\* C6: a click carrying no feature list or an empty one, or delivered while the
\* handle is null, changes nothing: no popup, no exception, the same handle,
\* error state and widget registrations.
C6_ClickNoOp ==
    [][(ev'.type = "click"
          /\ (~ev'.hasFeatures \/ Len(ev'.features) = 0 \/ map = Null)) =>
        /\ widgets' = widgets
        /\ map' = map
        /\ mapError' = mapError
        /\ thrown' = "none"
        /\ UNCHANGED <<mounted, mapContainer, cleanupFn>>]_vars

\* A click with a feature reaches the callback after the cleanup nulled the handle.
C6_Witness ==
    /\ ev.type = "click"
    /\ Len(ev.features) > 0
    /\ map = Null
    /\ ~Live(ev.inst)
    /\ widgets[ev.inst].popups = <<>>

\* C7: a throwing constructor or addControl sets mapError to the
\* initialization-failure message, and from then until the cleanup no event of
\* a live instance registers a source, a layer or a handler or changes mapError.
C7_InitFailureTerminal ==
    /\ [][(EffectRan' /\ ev'.outcome \in {"constructorThrows", "addControlThrows"})
            => mapError' = InitFailedMessage]_vars
    /\ [][(initFailure # "none" /\ ev'.type \in WidgetEventTypes
             /\ ev'.inst \in LiveInstances) =>
            /\ mapError' = mapError
            /\ \A i \in Instances :
                 /\ widgets'[i].sources = widgets[i].sources
                 /\ widgets'[i].layers = widgets[i].layers
                 /\ widgets'[i].listeners = widgets[i].listeners]_vars

\* C8: an error event of a live instance sets mapError to the runtime message
\* and changes nothing else: the handle, every instance (its source, layers,
\* handlers, popups, remove count) and the mount state are as before.
C8_ErrorDisplayOnly ==
    [][(ev'.type = "error" /\ ev'.inst \in LiveInstances) =>
        /\ mapError' = RuntimeErrorMessage
        /\ map' = map
        /\ widgets' = widgets
        /\ thrown' = "none"
        /\ UNCHANGED <<mounted, mapContainer, cleanupFn>>]_vars

C8_Witness ==
    /\ ev.type = "error"
    /\ ev.inst \in LiveInstances
    /\ map = ev.inst
    /\ mapError = RuntimeErrorMessage
    /\ OverlayComplete(widgets[map])

\* C9: when addSource or one of the two addLayer calls throws inside the ready
\* callback, the exception leaves the callback and mapError is unchanged.
C9_LoadFailureUncaught ==
    [][(ev'.type = "load"
          /\ ev'.outcome \in {"addSource", "addCircleLayer", "addLabelLayer"}) =>
        /\ thrown' = ev'.outcome
        /\ mapError' = mapError]_vars

C9_Witness ==
    /\ ev.type = "load"
    /\ ev.outcome = "addLabelLayer"
    /\ thrown = "addLabelLayer"
    /\ mapError = NoError
    /\ map # Null
    /\ HasLayer(widgets[map], CircleLayerId)

SomeReadyDelivered == \E j \in Instances : widgets[j].loadFired

\* C10: on every live instance the circle layer is there only with the source,
\* the label layer only with the circle layer, and a click, mouseenter or
\* mouseleave handler only with both layers; nothing of the overlay exists
\* before a ready event was delivered; and a source, layer or handler is added
\* to an instance only by a step that delivers a ready event while the handle
\* names that instance (never while the handle is null, never to a removed
\* instance), a new instance starting with none.
C10_OverlayOrder ==
    /\ [](\A i \in Instances :
            /\ Live(i) =>
                 /\ HasLayer(widgets[i], CircleLayerId) => HasSource(widgets[i], SourceId)
                 /\ HasLayer(widgets[i], LabelLayerId) => HasLayer(widgets[i], CircleLayerId)
                 /\ OverlayListeners(widgets[i]) # {} =>
                       /\ HasLayer(widgets[i], CircleLayerId)
                       /\ HasLayer(widgets[i], LabelLayerId)
            /\ (\/ widgets[i].sources # <<>>
                \/ widgets[i].layers # <<>>
                \/ OverlayListeners(widgets[i]) # {}) => SomeReadyDelivered)
    /\ [][/\ \A i \in Instances :
              (\/ Len(widgets'[i].sources) > Len(widgets[i].sources)
               \/ Len(widgets'[i].layers) > Len(widgets[i].layers)
               \/ Len(widgets'[i].listeners) > Len(widgets[i].listeners))
              => (ev'.type = "load" /\ map = i /\ Live(i))
          /\ \A i \in DOMAIN widgets' \ Instances :
              /\ widgets'[i].sources = <<>>
              /\ widgets'[i].layers = <<>>
              /\ OverlayListeners(widgets'[i]) = {}]_vars

C10_Witness ==
    /\ map # Null
    /\ widgets[map].loadFired
    /\ OverlayComplete(widgets[map])
    /\ Len(widgets) = 2

HoverEventTypes == {"mouseenter", "mouseleave"}

\* The cursor a hover event asks for.
HoverCursor(type) == IF type = "mouseenter" THEN "pointer" ELSE ""

\* C11: a mouseenter delivered while the handle is not null sets the cursor of
\* the instance it names to "pointer", a mouseleave sets it to "", and neither
\* changes anything else; no other event changes the cursor of an instance that
\* stays live, and a new instance starts with "".  So the cursor of the live
\* instance is "pointer" exactly when the last hover event it received was a
\* mouseenter.
C11_HoverCursor ==
    /\ [](\A i \in Instances : widgets[i].cursor \in {"", "pointer"})
    /\ []((ev.type \in HoverEventTypes /\ map # Null)
            => widgets[map].cursor = HoverCursor(ev.type))
    /\ [][/\ (ev'.type \in HoverEventTypes /\ map # Null) =>
               /\ widgets' = [widgets EXCEPT ![map].cursor = HoverCursor(ev'.type)]
               /\ thrown' = "none"
               /\ UNCHANGED <<map, mapError, mounted, mapContainer, cleanupFn>>
          /\ ev'.type \notin HoverEventTypes =>
               /\ \A i \in Instances :
                    widgets'[i].removeCalls = 0 => widgets'[i].cursor = widgets[i].cursor
               /\ \A i \in DOMAIN widgets' \ Instances : widgets'[i].cursor = ""]_vars

\* A mouseenter was delivered to a live, loaded instance that shows a popup.
C11_Witness ==
    /\ ev.type = "mouseenter"
    /\ map # Null
    /\ ev.inst = map
    /\ widgets[map].cursor = "pointer"
    /\ widgets[map].popups # <<>>

\* The component shows the map surface of an instance whose ready event has not
\* been delivered, and no error banner.
Initializing ==
    /\ map # Null
    /\ ~widgets[map].loadFired
    /\ mapError = NoError

NoReadyDelivered == \A j \in Instances : ~widgets[j].loadFired

\* C12: as long as no ready event has been delivered, no instance holds a
\* source, a layer, an interaction handler or a popup; and the component leaves
\* Initializing only by a step that delivers a ready event, delivers a widget
\* error event, or runs the cleanup (unmount): no other step, and no timer,
\* takes it out of that state.
C12_NoRecovery ==
    /\ [](NoReadyDelivered =>
            \A i \in Instances :
               /\ widgets[i].sources = <<>>
               /\ widgets[i].layers = <<>>
               /\ widgets[i].popups = <<>>
               /\ OverlayListeners(widgets[i]) = {})
    /\ [][(Initializing /\ ~Initializing')
            => ev'.type \in {"load", "error", "cleanup", "unmount"}]_vars
    /\ [][(Initializing /\ ~Initializing' /\ NoReadyDelivered')
            => \/ ev'.type = "error" /\ mapError' = RuntimeErrorMessage /\ map' = map
               \/ ev'.type \in {"cleanup", "unmount"} /\ map' = Null]_vars

\* A second instance waits for its ready event; the effect ran again meanwhile.
C12_Witness ==
    /\ Initializing
    /\ NoReadyDelivered
    /\ Len(widgets) = 2
    /\ ev.type = "effect"
    /\ ev.outcome = "skipped"

\* C13: the collection object holds the bundled records, unchanged, in every
\* reachable state, and every source registered on a widget carries exactly
\* those records: no effect run, ready, click, hover, error or cleanup step
\* adds, removes or changes one.
C13_CourtsImmutable ==
    /\ basketballCourts = typedBasketballCourts
    /\ \A i \in Instances : \A k \in DOMAIN widgets[i].sources :
         widgets[i].sources[k].data = typedBasketballCourts

\* The collection was registered, hovered, clicked and an error was shown.
C13_Witness ==
    /\ ev.type = "click"
    /\ map # Null
    /\ HasSource(widgets[map], SourceId)
    /\ widgets[map].popups # <<>>
    /\ widgets[map].cursor = "pointer"
    /\ mapError = RuntimeErrorMessage
    /\ Len(widgets) = 2
    /\ basketballCourts = typedBasketballCourts

\* What of an instance the component shows or registered: not the widget's own
\* record of having emitted load.
Registered(w) == <<w.sources, w.layers, w.listeners, w.controls, w.popups, w.cursor>>

\* C14: once the cleanup has removed an instance and nulled the handle, a ready,
\* click, mouseenter, mouseleave or error callback of that instance changes
\* nothing: no source, layer or handler is registered, no popup opened, no
\* cursor changed, mapError not modified, no exception.
C14_InertAfterCleanup ==
    [][(/\ ev'.type \in WidgetEventTypes
        /\ ev'.inst \in Instances
        /\ ~Live(ev'.inst)
        /\ map = Null) =>
        /\ \A i \in Instances : Registered(widgets'[i]) = Registered(widgets[i])
        /\ mapError' = mapError
        /\ map' = map
        /\ thrown' = "none"]_vars

\* C15: right after a cleanup the handle is null and every instance ever
\* constructed has had remove() called exactly once, so as many were released
\* as were created.  That includes the instance whose addControl threw: the
\* cleanup finds it in the handle and removes it.  When the last attempt failed
\* in the constructor, or the handle is null for any other reason, the cleanup
\* releases nothing.
C15_CreatedEqualsReleased ==
    /\ [](CleanupRan =>
            /\ map = Null
            /\ \A i \in Instances : widgets[i].removeCalls = 1
            /\ Cardinality({i \in Instances : widgets[i].removeCalls > 0}) = Len(widgets))
    /\ [][(CleanupRan' /\ initFailure = "addControl") =>
            /\ map # Null
            /\ widgets[map].removeCalls = 0
            /\ widgets'[map].removeCalls = 1]_vars
    /\ [][(CleanupRan' /\ (initFailure = "constructor" \/ map = Null)) =>
            widgets' = widgets]_vars

\* Unmounted with the failure banner up: the one instance built was released.
C15_Witness ==
    /\ ev.type = "unmount"
    /\ mapError = InitFailedMessage
    /\ Len(widgets) = 1
    /\ widgets[1].removeCalls = 1
    /\ ~widgets[1].loadFired
    /\ map = Null

ErrorMessages == {TokenMissingMessage, InitFailedMessage, RuntimeErrorMessage}

\* C16: the error message is null or one of the three fixed texts, and no step
\* of the component sets it back to null once it is set: a ready, click or
\* hover callback, a cleanup, an unmount and a re-run of the effect all leave a
\* message in place (though one message may replace another).
C16_ErrorNeverCleared ==
    /\ [](mapError \in {NoError} \cup ErrorMessages)
    /\ [][mapError # NoError => mapError' # NoError]_vars
    /\ [][(mapError # NoError /\ ev'.type \in {"load", "click", "mouseenter", "mouseleave", "cleanup", "unmount"})
            => mapError' = mapError]_vars

\* The ready callback ran to completion on a live map while the banner of an
\* earlier runtime error was up, and the banner is still there.
C16_Witness ==
    /\ ev.type = "load"
    /\ ev.outcome = "none"
    /\ map # Null
    /\ ev.inst = map
    /\ OverlayComplete(widgets[map])
    /\ mapError = RuntimeErrorMessage

====
